---- MODULE Spec2Model ----
(***************************************************************************)
(* Model of src/main.py: SchemaToJsonLdConverter, the CGMES RDF schema to  *)
(* JSON-LD context converter.                                              *)
(*                                                                         *)
(* Python strings are sequences of one-character strings, so that          *)
(* str.split, str.rstrip, the `in` substring test, f-string concatenation  *)
(* and the code-point order used by sorted() are computed, not assumed.    *)
(* Python dicts are functions (Put / Update); the two dicts whose key      *)
(* order is observable (self.classes, iterated in insertion order, and the *)
(* "@context" dict of the root document, serialised in insertion order)    *)
(* carry their key order explicitly.                                       *)
(***************************************************************************)
EXTENDS Integers, Sequences, FiniteSets, TLC

VARIABLES
    graph,              \* self.graph: the set of triples <<s, p, o>>
    enumeration,        \* how graph.subjects() may yield: [orders, revisits]
    config,             \* the constructor arguments
    context_base_url,   \* self.context_base_url
    classes,            \* self.classes: local name -> class descriptor
    class_order,        \* insertion order of the keys of self.classes
    properties,         \* self.properties: local name -> property descriptor
    pc,                 \* position in convert() / in the calling code
    stack,              \* activation records of _get_inherited_properties
    visited,            \* the visited set shared by one top-level call
    visit_log,          \* the names added to visited, in order (line 136)
    returned,           \* <<value>> returned by the last finished activation
    target,             \* class_name argument of the current top-level call
    resolved,           \* results of finished top-level calls, by class_name
    class_files,        \* CIM/<name>.jsonld: name -> document
    main_file           \* context.jsonld: <<>> or <<the "@context" dict>>

vars == <<graph, enumeration, config, context_base_url, classes, class_order,
          properties, pc, stack, visited, visit_log, returned, target,
          resolved, class_files, main_file>>

----------------------------------------------------------------------------
(* Bounds of the model *)

\* extra (repeated) yields of a subject by graph.subjects()
MaxRevisits == 1
\* top-level calls of _get_inherited_properties made by a direct caller
MaxCalls == 2
\* stand-in for the interpreter's recursion limit
MaxDepth == 6

----------------------------------------------------------------------------
(* Python values *)

None == <<"None">>

\* truth value of an Optional[str]
Truthy(x) == x # None /\ x # <<>>

EmptyDict == [k \in {} |-> k]

\* d[k] = v
Put(d, k, v) == [x \in DOMAIN d \cup {k} |-> IF x = k THEN v ELSE d[x]]

\* d.update(e)
Update(d, e) ==
    [x \in DOMAIN d \cup DOMAIN e |-> IF x \in DOMAIN e THEN e[x] ELSE d[x]]

Contains(s, c) == \E i \in 1..Len(s) : s[i] = c

\* s.split(c)[-1]
AfterLast(s, c) ==
    LET last == CHOOSE i \in 1..Len(s) :
                    s[i] = c /\ \A j \in (i+1)..Len(s) : s[j] # c
    IN  SubSeq(s, last + 1, Len(s))

\* needle in s
IsSubstring(needle, s) ==
    \E i \in 0..(Len(s) - Len(needle)) : SubSeq(s, i + 1, i + Len(needle)) = needle

\* s.rstrip(c)
RECURSIVE RStrip(_, _)
RStrip(s, c) ==
    IF s # <<>> /\ s[Len(s)] = c THEN RStrip(SubSeq(s, 1, Len(s) - 1), c) ELSE s

\* printable ASCII, code points 32..126 (the entry for code point 96 is a
\* placeholder: the character cannot be written in a string here and occurs
\* in no string of the model)
Ascii ==
    <<" ", "!", "\"", "#", "$", "%", "&", "'", "(", ")", "*", "+", ",", "-",
      ".", "/", "0", "1", "2", "3", "4", "5", "6", "7", "8", "9", ":", ";",
      "<", "=", ">", "?", "@", "A", "B", "C", "D", "E", "F", "G", "H", "I",
      "J", "K", "L", "M", "N", "O", "P", "Q", "R", "S", "T", "U", "V", "W",
      "X", "Y", "Z", "[", "\\", "]", "^", "_", "BACKTICK", "a", "b", "c", "d", "e",
      "f", "g", "h", "i", "j", "k", "l", "m", "n", "o", "p", "q", "r", "s",
      "t", "u", "v", "w", "x", "y", "z", "{", "|", "}", "~">>

Ord(c) == 31 + (CHOOSE i \in 1..Len(Ascii) : Ascii[i] = c)

\* a < b for Python strings
LexLess(a, b) ==
    \/ \E i \in 1..Len(a) :
          /\ i <= Len(b)
          /\ \A j \in 1..(i-1) : a[j] = b[j]
          /\ Ord(a[i]) < Ord(b[i])
    \/ Len(a) < Len(b) /\ \A j \in 1..Len(a) : a[j] = b[j]

\* insertion of x into the sorted sequence s, after the elements not above it
InsertSorted(x, s) ==
    LET k == Cardinality({i \in 1..Len(s) : ~LexLess(x, s[i])})
    IN  SubSeq(s, 1, k) \o <<x>> \o SubSeq(s, k + 1, Len(s))

\* sorted(keys)
RECURSIVE sorted(_)
sorted(s) ==
    IF s = <<>> THEN <<>>
    ELSE InsertSorted(s[Len(s)], sorted(SubSeq(s, 1, Len(s) - 1)))

Range(s) == {s[i] : i \in 1..Len(s)}

----------------------------------------------------------------------------
(* _extract_local_name *)

_extract_local_name(uri) ==
    IF Contains(uri, "#") THEN AfterLast(uri, "#")
    ELSE IF Contains(uri, "/") THEN AfterLast(uri, "/")
    ELSE uri

----------------------------------------------------------------------------
(* The triple store *)

RDFS_Class    == <<"r", "d", "f", "s", "#", "C", "l", "a", "s", "s">>
RDFS_Property == <<"r", "d", "f", "s", "#", "P", "r", "o", "p", "e", "r", "t", "y">>

\* graph.subjects(RDF.type, o)
subjects(g, o) == {t[1] : t \in {t \in g : t[2] = "rdf:type" /\ t[3] = o}}

\* graph.value(s, p): the object of a triple <<s, p, _>>, or None (the schemas
\* drawn below give a subject at most one object per predicate)
value(g, s, p) ==
    IF \E t \in g : t[1] = s /\ t[2] = p
    THEN (CHOOSE t \in g : t[1] = s /\ t[2] = p)[3]
    ELSE None

_get_label(g, s) ==
    LET label == value(g, s, "rdfs:label") IN IF Truthy(label) THEN label ELSE None

_get_comment(g, s) ==
    LET comment == value(g, s, "rdfs:comment")
    IN  IF Truthy(comment) THEN comment ELSE None

_get_subclass_of(g, s) ==
    LET subclass == value(g, s, "rdfs:subClassOf")
    IN  IF Truthy(subclass) THEN subclass ELSE None

_get_domain(g, s) ==
    LET domain == value(g, s, "rdfs:domain") IN IF Truthy(domain) THEN domain ELSE None

_get_range(g, s) ==
    LET range_val == value(g, s, "rdfs:range")
    IN  IF Truthy(range_val) THEN range_val ELSE None

\* every order, with at most extra repeated yields, in which the subjects S can
\* be yielded
Enumerations(S, extra) ==
    {y \in UNION {[1..n -> S] : n \in Cardinality(S)..(Cardinality(S) + extra)} :
        Range(y) = S}

\* one order in which the subjects S are yielded
OneEnumeration(S) == {CHOOSE y \in [1..Cardinality(S) -> S] : Range(y) = S}

\* the sequences graph.subjects() may yield for the subjects S
Yields(S) ==
    IF enumeration.orders = "every" THEN Enumerations(S, enumeration.revisits)
    ELSE OneEnumeration(S)

----------------------------------------------------------------------------
(* extract_classes *)

\* the descriptor stored for class_uri (lines 77-87)
ClassDescriptor(g, class_uri) ==
    LET class_name == _extract_local_name(class_uri)
        label == _get_label(g, class_uri)
    IN  [id         |-> class_uri,
         label      |-> IF Truthy(label) THEN label ELSE class_name,
         comment    |-> _get_comment(g, class_uri),
         subClassOf |-> _get_subclass_of(g, class_uri),
         properties |-> EmptyDict]

\* one iteration of the loop of extract_classes; reg = [data, order]
ExtractClass(g, reg, class_uri) ==
    LET class_name == _extract_local_name(class_uri)
    IN  [data  |-> Put(reg.data, class_name, ClassDescriptor(g, class_uri)),
         order |-> IF class_name \in DOMAIN reg.data THEN reg.order
                   ELSE Append(reg.order, class_name)]

\* the loop of extract_classes over the subjects in the order they are yielded
RECURSIVE ExtractClassesLoop(_, _, _)
ExtractClassesLoop(g, reg, yielded) ==
    IF yielded = <<>> THEN reg
    ELSE ExtractClassesLoop(g, ExtractClass(g, reg, Head(yielded)), Tail(yielded))

extract_classes ==
    /\ pc = "start"
    /\ \E reg \in {ExtractClassesLoop(graph, [data |-> classes, order |-> class_order],
                                        yielded) :
                         yielded \in Yields(subjects(graph, RDFS_Class))} :
          /\ classes' = reg.data
          /\ class_order' = reg.order
    /\ pc' = "classes"
    /\ UNCHANGED <<graph, enumeration, config, context_base_url, properties, stack,
                   visited, visit_log, returned, target, resolved, class_files,
                   main_file>>

----------------------------------------------------------------------------
(* extract_properties *)

\* the entry of self.properties for prop_uri (lines 106-112)
PropertyDescriptor(g, prop_uri) ==
    LET prop_name == _extract_local_name(prop_uri)
        label == _get_label(g, prop_uri)
    IN  [id      |-> prop_uri,
         label   |-> IF Truthy(label) THEN label ELSE prop_name,
         comment |-> _get_comment(g, prop_uri),
         domain  |-> _get_domain(g, prop_uri),
         range   |-> _get_range(g, prop_uri)]

\* the entry stored in the domain class's own properties (lines 119-124)
PropertyRef(g, prop_uri) ==
    [id      |-> prop_uri,
     label   |-> _get_label(g, prop_uri),
     comment |-> _get_comment(g, prop_uri),
     range   |-> _get_range(g, prop_uri)]

\* the own properties of the domain class are replaced, not extended
AttachProperty_Replace(g, cls, prop_uri) ==
    LET prop_name == _extract_local_name(prop_uri)
        domain == _get_domain(g, prop_uri)
    IN  IF Truthy(domain)
        THEN LET domain_class == _extract_local_name(domain)
             IN  IF domain_class \in DOMAIN cls
                 THEN [cls EXCEPT ![domain_class].properties =
                                      Put(EmptyDict, prop_name, PropertyRef(g, prop_uri))]
                 ELSE cls
        ELSE cls

\* lines 114-124: attach the property to its domain class, found by local name
AttachProperty(g, cls, prop_uri) ==
    LET prop_name == _extract_local_name(prop_uri)
        domain == _get_domain(g, prop_uri)
    IN  IF Truthy(domain)
        THEN LET domain_class == _extract_local_name(domain)
             IN  IF domain_class \in DOMAIN cls
                 THEN [cls EXCEPT ![domain_class].properties =
                                      Put(@, prop_name, PropertyRef(g, prop_uri))]
                 ELSE cls
        ELSE cls

\* one iteration of the loop of extract_properties; reg = [props, cls]
ExtractProperty(g, reg, prop_uri) ==
    [props |-> Put(reg.props, _extract_local_name(prop_uri),
                   PropertyDescriptor(g, prop_uri)),
     cls   |-> AttachProperty(g, reg.cls, prop_uri)]

RECURSIVE ExtractPropertiesLoop(_, _, _)
ExtractPropertiesLoop(g, reg, yielded) ==
    IF yielded = <<>> THEN reg
    ELSE ExtractPropertiesLoop(g, ExtractProperty(g, reg, Head(yielded)),
                               Tail(yielded))

extract_properties ==
    /\ pc = "classes"
    /\ \E reg \in {ExtractPropertiesLoop(graph, [props |-> properties, cls |-> classes],
                                           yielded) :
                         yielded \in Yields(subjects(graph, RDFS_Property))} :
          /\ properties' = reg.props
          /\ classes' = reg.cls
    /\ pc' = "extracted"
    /\ UNCHANGED <<graph, enumeration, config, context_base_url, class_order, stack,
                   visited, visit_log, returned, target, resolved, class_files,
                   main_file>>

----------------------------------------------------------------------------
(* _get_inherited_properties, one activation record per call *)

Top == stack[Len(stack)]
Pop == SubSeq(stack, 1, Len(stack) - 1)

\* the visited set of the previous top-level call is kept
TopLevelCall_SharedVisited(class_name) ==
    /\ stack' = <<[class_name |-> class_name, at |-> "entry"]>>
    /\ visited' = visited
    /\ visit_log' = <<>>
    /\ returned' = <<>>
    /\ target' = class_name

\* lines 130-131 at a top-level call: a fresh visited set
TopLevelCall(class_name) ==
    /\ stack' = <<[class_name |-> class_name, at |-> "entry"]>>
    /\ visited' = {}
    /\ visit_log' = <<>>
    /\ returned' = <<>>
    /\ target' = class_name

\* no cycle guard
AlreadyVisited_Never(class_name, seen) == FALSE

\* lines 134-135: the cycle guard
AlreadyVisited(class_name, seen) == class_name \in seen

\* the own properties overlaid with the parent's result
Inherit_ParentWins(parent_props, own) == Update(Update(EmptyDict, own), parent_props)

\* lines 153-156: the parent's result overlaid with the own properties
Inherit(parent_props, own) == Update(Update(EmptyDict, parent_props), own)

\* lines 134-152 and, for a class without a parent, 156-158
ResolveEnter ==
    /\ stack # <<>>
    /\ Top.at = "entry"
    /\ LET class_name == Top.class_name
       IN  IF AlreadyVisited(class_name, visited)
           THEN /\ stack' = Pop
                /\ returned' = <<EmptyDict>>
                /\ UNCHANGED <<visited, visit_log, pc>>
           ELSE /\ visited' = visited \cup {class_name}
                /\ visit_log' = Append(visit_log, class_name)
                /\ IF class_name \notin DOMAIN classes
                   THEN /\ stack' = Pop
                        /\ returned' = <<EmptyDict>>
                        /\ UNCHANGED pc
                   ELSE LET class_data == classes[class_name]
                        IN  IF Truthy(class_data.subClassOf)
                            THEN LET parent_name ==
                                         _extract_local_name(class_data.subClassOf)
                                 IN  IF Len(stack) < MaxDepth
                                     THEN /\ stack' =
                                               Append([stack EXCEPT ![Len(stack)].at = "call"],
                                                      [class_name |-> parent_name,
                                                       at |-> "entry"])
                                          /\ UNCHANGED <<returned, pc>>
                                     ELSE \* RecursionError
                                          /\ pc' = "crashed"
                                          /\ stack' = <<>>
                                          /\ UNCHANGED returned
                            ELSE /\ stack' = Pop
                                 /\ returned' = <<Inherit(EmptyDict, class_data.properties)>>
                                 /\ UNCHANGED pc
    /\ UNCHANGED <<graph, enumeration, config, context_base_url, classes, class_order,
                   properties, target, resolved, class_files, main_file>>

\* lines 152-158: the recursive call has returned
ResolveReturn ==
    /\ stack # <<>>
    /\ Top.at = "call"
    /\ returned # <<>>
    /\ stack' = Pop
    /\ returned' = <<Inherit(returned[1], classes[Top.class_name].properties)>>
    /\ UNCHANGED <<graph, enumeration, config, context_base_url, classes, class_order,
                   properties, pc, visited, visit_log, target, resolved, class_files,
                   main_file>>

----------------------------------------------------------------------------
(* A direct caller of _get_inherited_properties *)

\* the class names a direct caller asks about
QueryNames == {<<"A">>, <<"B">>, <<"C">>}

CallResolve ==
    /\ pc = "extracted"
    /\ stack = <<>>
    /\ returned = <<>>
    /\ Cardinality(DOMAIN resolved) < MaxCalls
    /\ \E class_name \in QueryNames \ DOMAIN resolved : TopLevelCall(class_name)
    /\ UNCHANGED <<graph, enumeration, config, context_base_url, classes, class_order,
                   properties, pc, resolved, class_files, main_file>>

\* the top-level call returns to the direct caller
CallReturns ==
    /\ pc = "extracted"
    /\ stack = <<>>
    /\ returned # <<>>
    /\ resolved' = Put(resolved, target, returned[1])
    /\ returned' = <<>>
    /\ UNCHANGED <<graph, enumeration, config, context_base_url, classes, class_order,
                   properties, pc, stack, visited, visit_log, target, class_files,
                   main_file>>

----------------------------------------------------------------------------
(* String literals of the emitted documents *)

K_context    == <<"@", "c", "o", "n", "t", "e", "x", "t">>
K_id         == <<"@", "i", "d">>
K_type       == <<"@", "t", "y", "p", "e">>
K_label      == <<"r", "d", "f", "s", ":", "l", "a", "b", "e", "l">>
K_comment    == <<"r", "d", "f", "s", ":", "c", "o", "m", "m", "e", "n", "t">>
K_subClassOf == <<"r", "d", "f", "s", ":", "s", "u", "b", "C", "l", "a", "s", "s", "O", "f">>
RdfsClass    == <<"r", "d", "f", "s", ":", "C", "l", "a", "s", "s">>
XMLSchema    == <<"X", "M", "L", "S", "c", "h", "e", "m", "a">>
CimPrefix    == <<"c", "i", "m", ":">>
XsdPrefix    == <<"x", "s", "d", ":">>
CimDir       == <<"C", "I", "M", "/">>
JsonLdSuffix == <<".", "j", "s", "o", "n", "l", "d">>
Cim  == <<"c", "i", "m">>
Xsd  == <<"x", "s", "d">>
Rdf  == <<"r", "d", "f">>
Rdfs == <<"r", "d", "f", "s">>

W3Org == <<"h", "t", "t", "p", ":", "/", "/", "w", "w", "w", ".", "w", "3", ".",
           "o", "r", "g", "/">>
XsdUri == W3Org \o <<"2", "0", "0", "1", "/">> \o XMLSchema \o <<"#">>
RdfUri == W3Org \o <<"1", "9", "9", "9", "/", "0", "2", "/", "2", "2", "-", "r", "d",
                     "f", "-", "s", "y", "n", "t", "a", "x", "-", "n", "s", "#">>
RdfsUri == W3Org \o <<"2", "0", "0", "0", "/", "0", "1", "/", "r", "d", "f", "-", "s",
                      "c", "h", "e", "m", "a", "#">>
\* self.base_uri: the default of the constructor
base_uri == <<"h", "t", "t", "p", ":", "/", "/", "i", "e", "c", ".", "c", "h", "/",
              "T", "C", "5", "7", "/", "2", "0", "1", "3", "/", "C", "I", "M", "-",
              "s", "c", "h", "e", "m", "a", "-", "c", "i", "m", "1", "6", "#">>

----------------------------------------------------------------------------
(* _build_class_context *)

\* the datatype is recognised by the namespace the range starts with
RangeType_Prefix(range_uri) ==
    IF Len(range_uri) >= Len(XsdUri) /\ SubSeq(range_uri, 1, Len(XsdUri)) = XsdUri
    THEN XsdPrefix \o _extract_local_name(range_uri)
    ELSE K_id

\* lines 250-259: the "@type" of a property with a range
RangeType(range_uri) ==
    IF IsSubstring(XMLSchema, range_uri)
    THEN XsdPrefix \o _extract_local_name(range_uri)
    ELSE K_id

\* lines 246-265: the entry of one property
PropertyContext(prop_data) ==
    LET c1 == Put(EmptyDict, K_id, prop_data.id)
        c2 == IF Truthy(prop_data.range)
              THEN Put(c1, K_type, RangeType(prop_data.range)) ELSE c1
        c3 == IF Truthy(prop_data.label) THEN Put(c2, K_label, prop_data.label) ELSE c2
    IN  IF Truthy(prop_data.comment) THEN Put(c3, K_comment, prop_data.comment) ELSE c3

\* lines 219-225: the four prefix bindings of a class context
ClassPreamble ==
    Put(Put(Put(Put(EmptyDict, Cim, base_uri), Xsd, XsdUri), Rdf, RdfUri), Rdfs, RdfsUri)

\* lines 235-241: the superclass entry
SubClassOfEntry(class_data, context) ==
    IF Truthy(class_data.subClassOf)
    THEN Put(context, K_subClassOf,
             Put(Put(EmptyDict, K_id, class_data.subClassOf), K_type, K_id))
    ELSE context

_build_class_context(class_name, class_data, all_properties) ==
    LET c1 == Put(Put(Put(Put(EmptyDict, K_context, ClassPreamble),
                          K_id, class_data.id),
                      K_type, RdfsClass),
                  K_label, class_data.label)
        c2 == IF Truthy(class_data.comment)
              THEN Put(c1, K_comment, class_data.comment) ELSE c1
        c3 == SubClassOfEntry(class_data, c2)
        entries == [k \in {CimPrefix \o n : n \in DOMAIN all_properties} |->
                       PropertyContext(all_properties[SubSeq(k, Len(CimPrefix) + 1, Len(k))])]
    IN  Update(c3, entries)

----------------------------------------------------------------------------
(* generate_class_contexts *)

\* the classes whose context file has been written
Written == Cardinality(DOMAIN class_files)

\* lines 167-169: the next class of self.classes.items() is resolved
GenerateClassStart ==
    /\ pc \in {"extracted", "generating"}
    /\ stack = <<>>
    /\ returned = <<>>
    /\ Written < Len(class_order)
    /\ TopLevelCall(class_order[Written + 1])
    /\ pc' = "generating"
    /\ UNCHANGED <<graph, enumeration, config, context_base_url, classes, class_order,
                   properties, resolved, class_files, main_file>>

\* lines 169-177: the context of the class is built and written
GenerateClassWrite ==
    /\ pc = "generating"
    /\ stack = <<>>
    /\ returned # <<>>
    /\ LET all_properties == returned[1]
       IN  /\ class_files' = Put(class_files, target,
                                 _build_class_context(target, classes[target],
                                                      all_properties))
           /\ resolved' = Put(resolved, target, all_properties)
    /\ returned' = <<>>
    /\ UNCHANGED <<graph, enumeration, config, context_base_url, classes, class_order,
                   properties, pc, stack, visited, visit_log, target, main_file>>

----------------------------------------------------------------------------
(* generate_main_context *)

\* context["@context"][k] = v, for a dict that keeps insertion order
OrderedPut(od, k, v) ==
    IF \E i \in 1..Len(od) : od[i][1] = k
    THEN [i \in 1..Len(od) |-> IF od[i][1] = k THEN <<k, v>> ELSE od[i]]
    ELSE Append(od, <<k, v>>)

\* lines 186-193
MainPreamble ==
    <<<<Cim, base_uri>>, <<Xsd, XsdUri>>, <<Rdf, RdfUri>>, <<Rdfs, RdfsUri>>>>

\* lines 198-201
ContextUrl(base, class_name) ==
    IF Truthy(base)
    THEN base \o <<"/">> \o CimDir \o class_name \o JsonLdSuffix
    ELSE CimDir \o class_name \o JsonLdSuffix

\* lines 203-206
ClassEntry(base, class_name) ==
    Put(Put(EmptyDict, K_id, CimPrefix \o class_name),
        K_context, ContextUrl(base, class_name))

\* lines 196-206: the loop over the sorted class names
RECURSIVE AddClassEntries(_, _, _)
AddClassEntries(context, names, base) ==
    IF names = <<>> THEN context
    ELSE AddClassEntries(OrderedPut(context, Head(names), ClassEntry(base, Head(names))),
                         Tail(names), base)

generate_main_context ==
    /\ pc \in {"extracted", "generating"}
    /\ stack = <<>>
    /\ returned = <<>>
    /\ Written = Len(class_order)
    /\ main_file' = <<AddClassEntries(MainPreamble, sorted(class_order), context_base_url)>>
    /\ pc' = "done"
    /\ UNCHANGED <<graph, enumeration, config, context_base_url, classes, class_order,
                   properties, stack, visited, visit_log, returned, target, resolved,
                   class_files>>

----------------------------------------------------------------------------
(* Inputs *)

nA   == <<"n", "#", "A">>
nB   == <<"n", "#", "B">>
nC   == <<"n", "#", "C">>
mA   == <<"m", "/", "A">>
nXsd == <<"n", "#", "x", "s", "d">>
nP   == <<"n", "#", "p">>
mP   == <<"m", "/", "p">>
nQ   == <<"n", "#", "q">>
XsdString == <<"w", "/", "X", "M", "L", "S", "c", "h", "e", "m", "a", "#", "s">>

\* the metadata of the schemas' subjects: fixed per subject
LabelOf(u) == IF u = nA THEN <<"a">> ELSE IF u = nP THEN <<"l">> ELSE None
CommentOf(u) == IF u = nB THEN <<"c">> ELSE IF u = mP THEN <<"d">> ELSE None
RangeOf(u) == IF u = nP THEN XsdString ELSE IF u = nQ THEN nB ELSE None

\* the triples asserted about subject s: its type and its single-valued predicates
Triples(s, type, preds) ==
    {<<s, "rdf:type", type>>}
        \cup {<<s, p, preds[p]>> : p \in {p \in DOMAIN preds : preds[p] # None}}

\* a schema with class subjects cs (superclass sub[c]) and property subjects ps
\* (domain dom[p])
GraphOf(cs, sub, ps, dom) ==
    UNION {Triples(c, RDFS_Class,
                   [p \in {"rdfs:label", "rdfs:comment", "rdfs:subClassOf"} |->
                       CASE p = "rdfs:label" -> LabelOf(c)
                         [] p = "rdfs:comment" -> CommentOf(c)
                         [] OTHER -> sub[c]]) : c \in cs}
    \cup
    UNION {Triples(q, RDFS_Property,
                   [p \in {"rdfs:label", "rdfs:comment", "rdfs:domain", "rdfs:range"} |->
                       CASE p = "rdfs:label" -> LabelOf(q)
                         [] p = "rdfs:comment" -> CommentOf(q)
                         [] p = "rdfs:domain" -> dom[q]
                         [] OTHER -> RangeOf(q)]) : q \in ps}

\* the state after construction, before load_schemas has been asked for more
Constructed(arg) ==
    /\ config = [context_base_url |-> arg]
    /\ context_base_url = IF Truthy(arg) THEN RStrip(arg, "/") ELSE None
    /\ classes = EmptyDict
    /\ class_order = <<>>
    /\ properties = EmptyDict
    /\ pc = "start"
    /\ stack = <<>>
    /\ visited = {}
    /\ visit_log = <<>>
    /\ returned = <<>>
    /\ target = None
    /\ resolved = EmptyDict
    /\ class_files = EmptyDict
    /\ main_file = <<>>

\* class hierarchies over three classes, with properties declared on them
InitResolve ==
    /\ \E cs \in SUBSET {nA, nB, nC} :
          \E sub \in [cs -> {None, nA, nB, nC}], dom \in [{nP, mP, nQ} -> {nA, nB, nC}] :
             graph = GraphOf(cs, sub, {nP, mP, nQ}, dom)
    /\ enumeration = [orders |-> "one", revisits |-> 0]
    /\ Constructed(None)

NextResolve ==
    \/ extract_classes
    \/ extract_properties
    \/ CallResolve
    \/ ResolveEnter
    \/ ResolveReturn
    \/ CallReturns

SpecResolve == InitResolve /\ [][NextResolve]_vars

----------------------------------------------------------------------------
(* convert(): the whole conversion *)

UrlHC      == <<"h", "/", "c">>
UrlHCSlash == <<"h", "/", "c", "/">>
UrlSlash   == <<"/">>

\* schemas whose local names collide or equal a prefix of the preamble, with
\* resolvable and unresolvable references, yielded in every order
InitConvert ==
    /\ \E cs \in SUBSET {nA, mA, nXsd}, ps \in SUBSET {nP, mP, nQ} :
          \E sub \in [cs -> {None, nA}], dom \in [ps -> {None, nA}] :
             graph = GraphOf(cs, sub, ps, dom)
    /\ enumeration = [orders |-> "every", revisits |-> MaxRevisits]
    /\ \E arg \in {None, UrlHC, UrlHCSlash, UrlSlash} : Constructed(arg)

Next ==
    \/ extract_classes
    \/ extract_properties
    \/ GenerateClassStart
    \/ ResolveEnter
    \/ ResolveReturn
    \/ GenerateClassWrite
    \/ generate_main_context

Spec == InitConvert /\ [][Next]_vars

\* convert() and a call of _get_inherited_properties run to completion: the
\* program is single-threaded and synchronous
FairResolve ==
    SpecResolve /\ WF_vars(ResolveEnter) /\ WF_vars(ResolveReturn)

----------------------------------------------------------------------------
(* Vocabulary of the properties *)

ClassSubjects == subjects(graph, RDFS_Class)
PropertySubjects == subjects(graph, RDFS_Property)

\* extract_classes and extract_properties have both run
Extracted == pc \notin {"start", "classes"}

\* the own-property mapping of a class of the registry
Own(n) == classes[n].properties

\* the name under which the superclass of n is looked up
ParentName(n) == _extract_local_name(classes[n].subClassOf)

\* n, its superclass, the superclass of that, ...: as long as the class is in
\* the registry, at most fuel classes
RECURSIVE Ancestors(_, _)
Ancestors(n, fuel) ==
    IF n \notin DOMAIN classes \/ fuel = 0 THEN <<>>
    ELSE <<n>> \o (IF Truthy(classes[n].subClassOf)
                   THEN Ancestors(ParentName(n), fuel - 1) ELSE <<>>)

Chain(n) == Ancestors(n, Cardinality(DOMAIN classes) + 1)

\* the superclass chain of n is acyclic and every superclass URI on it is the
\* URI of a class of the registry
AcyclicExtractedChain(n) ==
    LET a == Chain(n)
    IN  /\ \A i, j \in 1..Len(a) : a[i] = a[j] => i = j
        /\ \A i \in 1..Len(a) :
               Truthy(classes[a[i]].subClassOf) =>
                   /\ i < Len(a)
                   /\ classes[a[i + 1]].id = classes[a[i]].subClassOf

\* the names declared along the chain, each with its nearest declaration
NearestDeclarations(n) ==
    LET a == Chain(n)
        declaring(k) == {i \in 1..Len(a) : k \in DOMAIN Own(a[i])}
        nearest(k) == CHOOSE i \in declaring(k) : \A j \in declaring(k) : i <= j
    IN  [k \in UNION {DOMAIN Own(a[i]) : i \in 1..Len(a)} |-> Own(a[nearest(k)])[k]]

NoDuplicates(q) == \A i, j \in 1..Len(q) : q[i] = q[j] => i = j

----------------------------------------------------------------------------
(* Properties of _get_inherited_properties, checked under SpecResolve *)

\* C1: for a class whose superclass chain is acyclic and made of classes of the
\* registry, the top-level result holds exactly the names declared by the class
\* or one of its ancestors, each with the definition of the nearest declaring
\* class.
C1_NearestDeclarationWins ==
    \A n \in DOMAIN resolved \cap DOMAIN classes :
        AcyclicExtractedChain(n) => resolved[n] = NearestDeclarations(n)

\* a chain of three classes has been resolved; its first class overrides a
\* property of an ancestor, and an ancestor adds another name
C1_Witness ==
    \E n \in DOMAIN resolved \cap DOMAIN classes :
        /\ AcyclicExtractedChain(n)
        /\ Len(Chain(n)) = 3
        /\ \E i \in 2..3, k \in DOMAIN Own(n) :
               /\ k \in DOMAIN Own(Chain(n)[i])
               /\ Own(Chain(n)[i])[k] # Own(n)[k]
        /\ \E i \in 2..3 : DOMAIN Own(Chain(n)[i]) \ DOMAIN Own(n) # {}

\* C2: every top-level call terminates with a mapping, also on a cyclic
\* hierarchy, and within one call no class name is expanded twice.
C2_TerminatesVisitingOnce ==
    /\ [](NoDuplicates(visit_log) /\ pc # "crashed")
    /\ (stack # <<>>) ~> (stack = <<>> /\ returned # <<>>)

\* a call on a class that lies on a cycle has returned
C2_Witness ==
    \E n \in DOMAIN resolved \cap DOMAIN classes :
        /\ ~NoDuplicates(Chain(n))
        /\ Chain(n)[Len(Chain(n))] = n
        /\ Len(Chain(n)) > 2

\* C10: for a class c of the registry that records a superclass, the top-level
\* result of c is the top-level result of the superclass name overlaid with
\* the own properties of c; every own property of c is in the result with its
\* own definition; the calls leave both registries unchanged.
C10_ChildOverlaysParent ==
    /\ [](\A c \in DOMAIN resolved \cap DOMAIN classes :
            Truthy(classes[c].subClassOf) =>
                /\ ParentName(c) \in DOMAIN resolved =>
                       resolved[c] = Update(resolved[ParentName(c)], Own(c))
                /\ \A k \in DOMAIN Own(c) :
                       k \in DOMAIN resolved[c] /\ resolved[c][k] = Own(c)[k])
    /\ [][Extracted => classes' = classes /\ properties' = properties]_vars

\* two classes on a cycle, declaring the same name differently, have both been
\* resolved
C10_Witness ==
    \E c \in DOMAIN resolved \cap DOMAIN classes :
        /\ Truthy(classes[c].subClassOf)
        /\ ParentName(c) # c
        /\ ParentName(c) \in DOMAIN resolved \cap DOMAIN classes
        /\ ~NoDuplicates(Chain(c))
        /\ \E k \in DOMAIN Own(c) \cap DOMAIN Own(ParentName(c)) :
               Own(c)[k] # Own(ParentName(c))[k]

----------------------------------------------------------------------------
(* Properties of the extraction, checked under Spec *)

\* every subject has at most one value per predicate
SingleValued ==
    \A t, u \in graph : (t[1] = u[1] /\ t[2] = u[2] /\ t[2] # "rdf:type") => t = u

\* no two class subjects and no two property subjects share a local name
DistinctLocalNames ==
    /\ \A u, v \in ClassSubjects :
          _extract_local_name(u) = _extract_local_name(v) => u = v
    /\ \A u, v \in PropertySubjects :
          _extract_local_name(u) = _extract_local_name(v) => u = v

\* the registries after the subjects were yielded once each, in one fixed order
ReferenceExtraction ==
    LET cy == CHOOSE y \in OneEnumeration(ClassSubjects) : TRUE
        py == CHOOSE y \in OneEnumeration(PropertySubjects) : TRUE
        reg == ExtractClassesLoop(graph, [data |-> EmptyDict, order |-> <<>>], cy)
    IN  ExtractPropertiesLoop(graph, [props |-> EmptyDict, cls |-> reg.data], py)

\* the registries as the triples alone determine them: one descriptor per
\* subject, under its local name, and each property attached to the class that
\* has the local name of its domain
SubjectNamed(S, n) == CHOOSE u \in S : _extract_local_name(u) = n

AttachedTo(n) ==
    {q \in PropertySubjects :
        /\ Truthy(_get_domain(graph, q))
        /\ _extract_local_name(_get_domain(graph, q)) = n}

DeterminedClasses ==
    [n \in {_extract_local_name(u) : u \in ClassSubjects} |->
        [ClassDescriptor(graph, SubjectNamed(ClassSubjects, n)) EXCEPT
            !.properties =
                [k \in {_extract_local_name(q) : q \in AttachedTo(n)} |->
                    PropertyRef(graph, SubjectNamed(AttachedTo(n), k))]]]

DeterminedProperties ==
    [k \in {_extract_local_name(q) : q \in PropertySubjects} |->
        PropertyDescriptor(graph, SubjectNamed(PropertySubjects, k))]

\* C3: a property whose rdfs:domain is not the URI of an extracted class is
\* recorded in the property registry and is in no class's own properties.
C3_ForeignDomainNeverAttached ==
    Extracted =>
        \A q \in PropertySubjects :
            (/\ Truthy(_get_domain(graph, q))
             /\ _get_domain(graph, q) \notin ClassSubjects)
            => /\ _extract_local_name(q) \in DOMAIN properties
               /\ \A n \in DOMAIN classes : \A k \in DOMAIN Own(n) : Own(n)[k].id # q

\* C9 as stated: with single-valued predicates, the registries are the same
\* for every order of the subjects and for repeated visits, that is, they
\* equal the registries of one fixed order without repeats.
C9_SameForEveryOrder ==
    (Extracted /\ SingleValued) =>
        /\ classes = ReferenceExtraction.cls
        /\ properties = ReferenceExtraction.props

\* C9 amended: with single-valued predicates and no local name shared by two
\* class subjects or by two property subjects, the registries are the ones the
\* triples determine, hence the same for every order and for repeated visits.
C9_SameForEveryOrderOfDistinctNames ==
    (Extracted /\ SingleValued /\ DistinctLocalNames) =>
        /\ classes = ReferenceExtraction.cls
        /\ properties = ReferenceExtraction.props
        /\ classes = DeterminedClasses
        /\ properties = DeterminedProperties

\* two classes were inserted in another order than the fixed one, subjects may
\* have been yielded twice, and a class owns two properties
C9_Witness ==
    /\ Extracted /\ SingleValued /\ DistinctLocalNames
    /\ enumeration.revisits > 0
    /\ Len(class_order) >= 2
    /\ class_order #
          ExtractClassesLoop(graph, [data |-> EmptyDict, order |-> <<>>],
                             CHOOSE y \in OneEnumeration(ClassSubjects) : TRUE).order
    /\ \E n \in DOMAIN classes : Cardinality(DOMAIN Own(n)) = 2

----------------------------------------------------------------------------
(* Properties of the emitted documents, checked under Spec *)

\* the "@context" dict of context.jsonld
MainContext == main_file[1]

\* its entries that are keyed by a class name, in document order
ClassEntries ==
    LET IsClassEntry(e) == e[1] \in DOMAIN classes
    IN  SelectSeq(MainContext, IsClassEntry)

\* C4: a class context has an rdfs:subClassOf entry only when the superclass
\* URI is the URI of an extracted class, and then the entry is
\* {"@id": <parent URI>, "@type": "@id"}.
C4_SubClassOfOnlyWhenResolved ==
    \A n \in DOMAIN class_files :
        K_subClassOf \in DOMAIN class_files[n] =>
            /\ classes[n].subClassOf \in ClassSubjects
            /\ class_files[n][K_subClassOf] =
                   Put(Put(EmptyDict, K_id, classes[n].subClassOf), K_type, K_id)

\* C5: every entry of the effective property set is rendered under the key
\* cim:<local name of the property> with "@id" the property URI, and with
\* "@type" xsd:<local name of the range> when the range URI contains
\* "XMLSchema", "@id" for any other range URI.
C5_PropertyEntryTyping ==
    \A n \in DOMAIN class_files :
        \A k \in DOMAIN resolved[n] :
            LET prop == resolved[n][k]
                key == CimPrefix \o _extract_local_name(prop.id)
            IN  /\ key \in DOMAIN class_files[n]
                /\ class_files[n][key][K_id] = prop.id
                /\ Truthy(prop.range) =>
                      /\ K_type \in DOMAIN class_files[n][key]
                      /\ class_files[n][key][K_type] =
                            IF IsSubstring(XMLSchema, prop.range)
                            THEN XsdPrefix \o _extract_local_name(prop.range)
                            ELSE K_id

\* a class context was written with an inherited datatype property, typed
\* xsd:s, and an inherited object property, typed @id
C5_Witness ==
    \E n \in DOMAIN class_files :
        /\ \E k \in DOMAIN resolved[n] \ DOMAIN Own(n) :
              /\ resolved[n][k].range = XsdString
              /\ class_files[n][CimPrefix \o k][K_type] = <<"x", "s", "d", ":", "s">>
        /\ \E k \in DOMAIN resolved[n] \ DOMAIN Own(n) :
              /\ resolved[n][k].range = nB
              /\ class_files[n][CimPrefix \o k][K_type] = <<"@", "i", "d">>

\* C6: the class entries of context.jsonld are in strictly ascending order of
\* class name.
C6_ClassEntriesAscending ==
    main_file # <<>> =>
        \A i \in 1..(Len(ClassEntries) - 1) :
            LexLess(ClassEntries[i][1], ClassEntries[i + 1][1])

\* C7: with contextBaseUrl unset every class entry's "@context" is
\* CIM/<name>.jsonld; with contextBaseUrl set to b it is
\* <b without trailing slash>/CIM/<name>.jsonld.
C7_ContextUrlFollowsBase ==
    main_file # <<>> =>
        \A i \in 1..Len(ClassEntries) :
            LET name == ClassEntries[i][1]
                b == config.context_base_url
            IN  ClassEntries[i][2][K_context] =
                    IF b = None THEN CimDir \o name \o JsonLdSuffix
                    ELSE RStrip(b, "/") \o <<"/">> \o CimDir \o name \o JsonLdSuffix

\* C8: context.jsonld holds the four prefix bindings and, besides them, one
\* entry {"@id": "cim:<name>", "@context": <url>} per class: 4 + number of
\* classes entries.
C8_PreambleAndOneEntryPerClass ==
    main_file # <<>> =>
        /\ Len(MainContext) = 4 + Cardinality(DOMAIN classes)
        /\ SubSeq(MainContext, 1, 4) = MainPreamble
        /\ \A n \in DOMAIN classes :
              \E i \in 5..Len(MainContext) :
                  /\ MainContext[i][1] = n
                  /\ MainContext[i][2][K_id] = CimPrefix \o n
                  /\ K_context \in DOMAIN MainContext[i][2]

====
